---- MODULE Spec2Model ----
(***************************************************************************)
(* The zk-profiler engine (profiler.ts: profileCircuit and its helpers) as *)
(* a state machine.  One run of profileCircuit walks through its file      *)
(* system calls in program order; the file system is part of the state.    *)
(*                                                                         *)
(* Encodings                                                               *)
(*   - a JavaScript string (file name, circuit name) is a sequence of      *)
(*     one-character strings, so endsWith and replace are computed on the  *)
(*     characters;                                                         *)
(*   - a value of type `number | undefined` is <<>> (undefined) or <<n>>;  *)
(*   - a path is the file's name inside <circuitRoot>/target (the prefix   *)
(*     path.join adds is the same for every artifact);                     *)
(*   - the rent estimate is an integer number of 10^-4 SOL, the unit of   *)
(*     its toFixed(4);                                                     *)
(*   - priorityFees, a function of totalCU alone that no other field      *)
(*     reads, is left out of the result record.                           *)
(***************************************************************************)
EXTENDS Integers, Sequences, FiniteSets, TLC

(* ---------------- Solana 2026 limits ---------------- *)

SOLANA_TX_MAX_BYTES == 1232
SAFE_INSTRUCTION_DATA_LIMIT == 900
SAFE_INSTRUCTION_DATA_LIMIT_ALT == 750
FIELD_ELEMENT_BYTES == 32

(* ---------------- Economic constants ---------------- *)

\* RENT_SOL_PER_KB = 0.007 SOL, in units of 10^-4 SOL
RENT_SOL_PER_KB == 70
\* the double nearest to 0.007 is (7 * 2^60 + 168) / (1000 * 2^60)
RENT_DOUBLE_EXCESS == 168

BASE_VERIFY_CU == 150000
CU_PER_PUBLIC_INPUT == 12000
CU_PER_10K_CONSTRAINTS == 20000
CONSTRAINT_BUCKET == 10000
HIGH_PUBLIC_INPUTS == 8
HIGH_CU == 900000
BYTES_PER_KB == 1024

(* ---------------- Bounds of the model ---------------- *)

\* the largest number of *.proof entries the target directory starts with
MaxProofFiles == 2
\* the number of times another process rewrites or removes an artifact
\* during one run (SpecConc only)
MaxFsChanges == 1

(* ---------------- Optional values ---------------- *)

Undefined == <<>>
Some(n) == <<n>>
IsDefined(x) == x # <<>>
Val(x) == x[1]

(* ---------------- Strings ---------------- *)

DotProof == <<".", "p", "r", "o", "o", "f">>
DotPw == <<".", "p", "w">>
DotGz == <<".", "g", "z">>
DotJson == <<".", "j", "s", "o", "n">>
DotVk == <<".", "v", "k">>

\* String.prototype.endsWith
endsWith(s, suffix) ==
  /\ Len(s) >= Len(suffix)
  /\ SubSeq(s, Len(s) - Len(suffix) + 1, Len(s)) = suffix

\* the positions at which pattern occurs in s
Occurrences(s, pattern) ==
  {i \in 1..(Len(s) - Len(pattern) + 1) :
     SubSeq(s, i, i + Len(pattern) - 1) = pattern}

\* String.prototype.replace with a string pattern: the FIRST occurrence only
replace(s, pattern, replacement) ==
  IF Occurrences(s, pattern) = {} THEN s
  ELSE LET i == CHOOSE k \in Occurrences(s, pattern) :
                  \A j \in Occurrences(s, pattern) : k <= j
       IN SubSeq(s, 1, i - 1) \o replacement
            \o SubSeq(s, i + Len(pattern), Len(s))

\* Array.prototype.find with the predicate f.endsWith(".proof"):
\* the first matching element, or undefined
findProofFile(files) ==
  LET hits == {i \in 1..Len(files) : endsWith(files[i], DotProof)}
  IN IF hits = {} THEN Undefined
     ELSE Some(files[CHOOSE k \in hits : \A j \in hits : k <= j])

(* ---------------- Files ---------------- *)

\* A file is [exists, size, doc]: its byte length and what JSON.parse makes
\* of its text.  doc.kind is
\*   "invalid"  JSON.parse throws (also every binary artifact)
\*   "null"     the text is the JSON value null
\*   "noField"  an object without a "constraints" member
\*   "array"    constraints is an array of doc.length elements
\*   "object"   constraints is an object whose "length" member is the
\*              integer doc.length
Doc(kind, length) == [kind |-> kind, length |-> length]
File(size, doc) == [exists |-> TRUE, size |-> size, doc |-> doc]
NoFile == [exists |-> FALSE, size |-> 0, doc |-> Doc("invalid", 0)]
Binary(size) == File(size, Doc("invalid", 0))

\* the circuit names and the file names of the modelled target directory
StemA == <<"a">>
StemAs == <<"a", "s">> \o DotProof
Stems == {StemA, StemAs}
Extensions == {DotProof, DotPw, DotGz, DotJson, DotVk}
\* "a.proofs.proof": the text ".proof" occurs before the final extension
ProofsDotProof == <<"a">> \o DotProof \o <<"s">> \o DotProof
Paths == {stem \o ext : stem \in Stems, ext \in Extensions} \cup {ProofsDotProof}
ProofPaths == {p \in Paths : endsWith(p, DotProof)}
\* a fixed enumeration of Paths
RECURSIVE SeqOfSet(_)
SeqOfSet(S) ==
  IF S = {} THEN <<>>
  ELSE LET x == CHOOSE y \in S : TRUE IN <<x>> \o SeqOfSet(S \ {x})
PathOrder == SeqOfSet(Paths)

\* the contents the artifacts are drawn from
ProofSizes == {300, 600, 1000}
PwSizes == {0, 200, 320, 2016}
GzSizes == {64}
VkSizes == {0, 1, 1024, 2816}
AcirFiles ==
  { File(0, Doc("invalid", 0)),
    File(4, Doc("null", 0)),
    File(2, Doc("noField", 0)),
    File(18, Doc("array", 0)),
    File(90000, Doc("array", 10001)),
    File(3000000, Doc("array", 380000)),
    File(34, Doc("object", -80000)) }

(* ---------------- Helpers ---------------- *)

\* fs.statSync(path).size of an existing file
statSize(file) == file.size

\* estimatePublicInputs, after the existence check: the bytes read,
\* integer-divided by the field-element width
publicInputsOfBytes(bytes) == Some(bytes \div FIELD_ELEMENT_BYTES)

(* ---------------- ACIR analysis ---------------- *)

\* mutant of constraintCountOfDoc: `?? 0` in place of `?? undefined`
constraintCountOrZero(doc) ==
  CASE doc.kind = "invalid" -> Undefined
    [] doc.kind = "null" -> Undefined
    [] doc.kind = "noField" -> Some(0)
    [] doc.kind = "array" -> Some(doc.length)
    [] doc.kind = "object" -> Some(doc.length)

\* extractConstraintCount, after the existence check:
\* try { acir = JSON.parse(text); return acir.constraints?.length ?? undefined }
\* catch { return undefined }
constraintCountOfDoc(doc) ==
  CASE doc.kind = "invalid" -> Undefined     \* JSON.parse throws, caught
    [] doc.kind = "null" -> Undefined        \* null.constraints throws, caught
    [] doc.kind = "noField" -> Undefined     \* undefined?.length
    [] doc.kind = "array" -> Some(doc.length)
    [] doc.kind = "object" -> Some(doc.length)

(* ---------------- Compute Unit prediction ---------------- *)

\* a destructured parameter's default: used when the argument is undefined
OrDefault(x, d) == IF IsDefined(x) THEN Val(x) ELSE d

\* Math.floor(a / b) for b > 0
Floor(a, b) == a \div b

predictComputeUnits(publicInputsArg, constraintCountArg) ==
  LET publicInputs == OrDefault(publicInputsArg, 0)
      constraintCount == OrDefault(constraintCountArg, 0)
      constraintCU == Floor(constraintCount, CONSTRAINT_BUCKET) * CU_PER_10K_CONSTRAINTS
  IN BASE_VERIFY_CU + publicInputs * CU_PER_PUBLIC_INPUT + constraintCU

(* ---------------- Rent estimation ---------------- *)

\* (2^n) % mod, without computing 2^n
RECURSIVE Pow2Mod(_, _)
Pow2Mod(n, mod) == IF n = 0 THEN 1 % mod ELSE (2 * Pow2Mod(n - 1, mod)) % mod

\* the largest g >= from with 125 * 2^g <= 224 * m
RECURSIVE GridExponent(_, _)
GridExponent(m, from) ==
  IF 125 * 2^(from + 1) <= 224 * m THEN GridExponent(m, from + 1) ELSE from

\* Number(((bytes / 1024) * RENT_SOL_PER_KB).toFixed(4)) in units of 10^-4 SOL,
\* for 0 < bytes < 30,000,000, computed as IEEE-754 doubles compute it.
\*   bytes / 1024 is exact.  The double 0.007 is
\*   (7 * 2^60 + RENT_DOUBLE_EXCESS) / (1000 * 2^60), a little above 7/1000,
\*   and the product is rounded to the nearest double (53 bits, ties to
\*   even) before toFixed rounds that double to 4 decimals (ties to the
\*   larger value).
\*   Off a tie (bytes * 70 / 1024 not k + 1/2) the double lies on the same
\*   side of every k + 1/2 as the exact value.  On a tie, bytes = 256 * m with
\*   m odd, the exact product is (A + RENT_DOUBLE_EXCESS * m / 2^g) / 1000
\*   grid steps with A = 7 * m * 2^(60 - g) and the tie itself is A / 1000
\*   steps: the double is below the tie when the product rounds down to
\*   floor(A / 1000) and A % 1000 # 0.
rentToFixed4(bytes) ==
  LET num == bytes * RENT_SOL_PER_KB
      k == num \div BYTES_PER_KB
      m == bytes \div 256
      g == GridExponent(m, 0)
      a2000 == (((7 * m) % 2000) * Pow2Mod(60 - g, 2000)) % 2000
      a1000 == a2000 % 1000
      lhs == a1000 * 2^g + RENT_DOUBLE_EXCESS * m
      half == 500 * 2^g
      roundsUp == lhs > half \/ (lhs = half /\ a2000 >= 1000)
  IN IF bytes % 512 # 256
     THEN IF 2 * (num % BYTES_PER_KB) > BYTES_PER_KB THEN k + 1 ELSE k
     ELSE IF roundsUp \/ a1000 = 0 THEN k + 1 ELSE k

\* if (!bytes) return undefined: undefined and 0 are both falsy;
\* else (bytes / 1024) * RENT_SOL_PER_KB, toFixed(4); in 10^-4 SOL
estimateRent(bytes) ==
  IF ~IsDefined(bytes) \/ Val(bytes) = 0 THEN Undefined
  ELSE Some(rentToFixed4(Val(bytes)))

(* ---------------- Classification ---------------- *)

\* opts?.usesALT ?? false
usesALTOf(opts) == OrDefault(opts, FALSE)

effectiveLimitOf(usesALT) ==
  IF usesALT THEN SAFE_INSTRUCTION_DATA_LIMIT_ALT ELSE SAFE_INSTRUCTION_DATA_LIMIT

\* a warning message: its template and the number it interpolates
Warning(kind, n) == [kind |-> kind, n |-> n]

\* if (instructionDataBytes > effectiveInstructionLimit) warnings.push(...)
budgetWarning(ws, instructionDataBytes, usesALT) ==
  IF instructionDataBytes > effectiveLimitOf(usesALT)
  THEN Append(ws, Warning(IF usesALT THEN "exceeds ALT-adjusted limit"
                                     ELSE "exceeds safe limit",
                          instructionDataBytes))
  ELSE ws

\* mutant of maxTxWarning: the check written as an `else if` of the budget check
maxTxWarningElseIf(ws, instructionDataBytes) ==
  IF Len(ws) = 0 /\ instructionDataBytes > SOLANA_TX_MAX_BYTES
  THEN Append(ws, Warning("exceeds MAX Solana TX size", SOLANA_TX_MAX_BYTES))
  ELSE ws

\* if (instructionDataBytes > SOLANA_TX_MAX_BYTES) warnings.push(...)
maxTxWarning(ws, instructionDataBytes) ==
  IF instructionDataBytes > SOLANA_TX_MAX_BYTES
  THEN Append(ws, Warning("exceeds MAX Solana TX size", SOLANA_TX_MAX_BYTES))
  ELSE ws

\* if (publicInputCount && publicInputCount > 8) warnings.push(...)
publicInputWarning(ws, publicInputCount) ==
  IF /\ IsDefined(publicInputCount)
     /\ Val(publicInputCount) # 0
     /\ Val(publicInputCount) > HIGH_PUBLIC_INPUTS
  THEN Append(ws, Warning("High public input count", Val(publicInputCount)))
  ELSE ws

\* if (totalCU > 900_000) warnings.push(...)
highCUWarning(ws, totalCU) ==
  IF totalCU > HIGH_CU
  THEN Append(ws, Warning("High CU usage", totalCU))
  ELSE ws

\* mutant of statusOf: the two tests in the other order
statusOfWarnFirst(instructionDataBytes, ws) ==
  IF Len(ws) > 0 THEN "WARN"
  ELSE IF instructionDataBytes > SOLANA_TX_MAX_BYTES THEN "FAIL"
  ELSE "PASS"

\* let status = "PASS"; if (... > SOLANA_TX_MAX_BYTES) status = "FAIL";
\* else if (warnings.length > 0) status = "WARN"
statusOf(instructionDataBytes, ws) ==
  IF instructionDataBytes > SOLANA_TX_MAX_BYTES THEN "FAIL"
  ELSE IF Len(ws) > 0 THEN "WARN"
  ELSE "PASS"

(* ---------------- State ---------------- *)

VARIABLES
  fs,                    \* the files of <circuitRoot>/target: [Paths -> file]
  targetDirExists,       \* whether <circuitRoot>/target exists
  opts,                  \* opts?.usesALT: undefined, true or false
  fsChanges,             \* artifacts rewritten by another process so far
  pc,                    \* the run's position in profileCircuit
  proofFile,             \* the directory entry find() matched
  circuitName,
  proofBytes,
  publicWitnessBytes,
  instructionDataBytes,
  witnessBytes,
  acirBytes,
  publicInputCount,
  constraintCount,
  effectiveInstructionLimit,
  warnings,
  totalCU,
  vkRentEstimateSOL,
  error,                 \* the exception that ended the run, if any
  result,                \* the returned ProfileResult: <<>> until returned
  accesses               \* file system calls made so far, per artifact

env == <<fs, targetDirExists, opts, fsChanges>>
resolved == <<proofFile, circuitName>>
sizes == <<proofBytes, publicWitnessBytes, instructionDataBytes>>
optionalSizes == <<witnessBytes, acirBytes>>
counts == <<publicInputCount, constraintCount>>
verdict == <<effectiveInstructionLimit, warnings, totalCU>>
outcome == <<error, result>>
vars == <<env, pc, resolved, sizes, optionalSizes, counts, verdict,
          vkRentEstimateSOL, outcome, accesses>>

ArtifactKinds == {"proof", "pw", "witness", "acir", "vk"}

NoError == [code |-> "none", syscall |-> "", path |-> <<>>]
\* throw new Error(`Missing target/ directory in ${circuitRoot}`)
MissingTargetError == [code |-> "MissingTarget", syscall |-> "", path |-> <<>>]
\* throw new Error("No .proof file found. Did you run `sunspot prove`?")
NoProofFileError == [code |-> "NoProofFile", syscall |-> "", path |-> <<>>]
\* what fs.statSync and fs.readFileSync throw for a path that does not
\* exist: "ENOENT: no such file or directory, <syscall> '<path>'"
ENOENT(syscall, path) == [code |-> "ENOENT", syscall |-> syscall, path |-> path]

\* path.join(circuitRoot, "target"), as the name of the directory
TargetDir == <<"t", "a", "r", "g", "e", "t">>

\* the five paths resolveCircuitArtifacts returns
proofPath == circuitName \o DotProof
pwPath == circuitName \o DotPw
witnessPath == circuitName \o DotGz
acirPath == circuitName \o DotJson
vkPath == circuitName \o DotVk

\* the file at a path, and fs.existsSync
fileAt(path) == IF path \in Paths THEN fs[path] ELSE NoFile
existsSync(path) == fileAt(path).exists

\* one more file system call on an artifact
Accessed(kind) == accesses' = [accesses EXCEPT ![kind] = @ + 1]

\* fs.readdirSync(targetDir) promises no order.  The listings considered
\* put any one entry first and the others after it in a fixed order, which
\* makes every entry ending in ".proof" the first such entry of some listing.
Entries == {p \in Paths : fs[p].exists}
InPathOrder(S) == SelectSeq(PathOrder, LAMBDA p : p \in S)
Listings ==
  IF Entries = {} THEN {<<>>}
  ELSE {<<e>> \o InPathOrder(Entries \ {e}) : e \in Entries}

(* ---------------- Initial states ---------------- *)

ProofFiles == {Binary(s) : s \in ProofSizes}

\* the target directory holds at most MaxProofFiles proof files and the
\* other artifacts of one circuit (primary)
DirWith(proofs, primary, pw, gz, acir, vk) ==
  [p \in Paths |->
     IF p \in ProofPaths THEN proofs[p]
     ELSE IF p = primary \o DotPw THEN pw
     ELSE IF p = primary \o DotGz THEN gz
     ELSE IF p = primary \o DotJson THEN acir
     ELSE IF p = primary \o DotVk THEN vk
     ELSE NoFile]

InitRun ==
  /\ fsChanges = 0
  /\ pc = "start"
  /\ proofFile = <<>>
  /\ circuitName = <<>>
  /\ proofBytes = 0
  /\ publicWitnessBytes = 0
  /\ instructionDataBytes = 0
  /\ witnessBytes = Undefined
  /\ acirBytes = Undefined
  /\ publicInputCount = Undefined
  /\ constraintCount = Undefined
  /\ effectiveInstructionLimit = 0
  /\ warnings = <<>>
  /\ totalCU = 0
  /\ vkRentEstimateSOL = Undefined
  /\ error = NoError
  /\ result = <<>>
  /\ accesses = [k \in ArtifactKinds |-> 0]

Init ==
  /\ opts \in {Undefined, Some(TRUE), Some(FALSE)}
  /\ targetDirExists \in BOOLEAN
  /\ IF ~targetDirExists THEN fs = [p \in Paths |-> NoFile]
     ELSE \E proofs \in [ProofPaths -> {NoFile} \cup ProofFiles],
             primary \in Stems,
             pw \in {NoFile} \cup {Binary(s) : s \in PwSizes},
             gz \in {NoFile} \cup {Binary(s) : s \in GzSizes},
             acir \in {NoFile} \cup AcirFiles,
             vk \in {NoFile} \cup {Binary(s) : s \in VkSizes} :
          /\ Cardinality({p \in ProofPaths : proofs[p].exists}) <= MaxProofFiles
          /\ fs = DirWith(proofs, primary, pw, gz, acir, vk)
  /\ InitRun

(* ---------------- profileCircuit, one action per step ---------------- *)

Throw(e) ==
  /\ error' = e
  /\ pc' = "failed"
  /\ UNCHANGED result

Goto(label) ==
  /\ pc' = label
  /\ UNCHANGED outcome

\* resolveCircuitArtifacts: if (!fs.existsSync(targetDir)) throw ...
CheckTargetDir ==
  /\ pc = "start"
  /\ IF targetDirExists THEN Goto("readdir") ELSE Throw(MissingTargetError)
  /\ UNCHANGED <<env, resolved, sizes, optionalSizes, counts, verdict,
                 vkRentEstimateSOL, accesses>>

\* resolveCircuitArtifacts: files = fs.readdirSync(targetDir), the find, the
\* circuit name; readdirSync throws when the directory is gone by now
ReadTargetDir ==
  /\ pc = "readdir"
  /\ IF ~targetDirExists
     THEN Throw(ENOENT("scandir", TargetDir)) /\ UNCHANGED resolved
     ELSE \E files \in Listings :
            LET found == findProofFile(files) IN
            IF ~IsDefined(found)
            THEN Throw(NoProofFileError) /\ UNCHANGED resolved
            ELSE /\ proofFile' = Val(found)
                 /\ circuitName' = replace(Val(found), DotProof, <<>>)
                 /\ Goto("statProof")
  /\ UNCHANGED <<env, sizes, optionalSizes, counts, verdict,
                 vkRentEstimateSOL, accesses>>

\* const proofBytes = fs.statSync(proofPath).size
StatProof ==
  /\ pc = "statProof"
  /\ Accessed("proof")
  /\ IF existsSync(proofPath)
     THEN /\ proofBytes' = statSize(fileAt(proofPath))
          /\ Goto("statPw")
     ELSE /\ Throw(ENOENT("stat", proofPath))
          /\ UNCHANGED proofBytes
  /\ UNCHANGED <<env, resolved, publicWitnessBytes, instructionDataBytes,
                 optionalSizes, counts, verdict, vkRentEstimateSOL>>

\* mutant of StatPw: a stat that does not throw (throwIfNoEntry: false) and
\* a missing size read as 0
StatPwLenient ==
  /\ pc = "statPw"
  /\ Accessed("pw")
  /\ publicWitnessBytes' = statSize(fileAt(pwPath))
  /\ instructionDataBytes' = proofBytes + publicWitnessBytes'
  /\ Goto("witnessExists")
  /\ UNCHANGED <<env, resolved, proofBytes, optionalSizes, counts, verdict,
                 vkRentEstimateSOL>>

\* const publicWitnessBytes = fs.statSync(pwPath).size
\* const instructionDataBytes = proofBytes + publicWitnessBytes
StatPw ==
  /\ pc = "statPw"
  /\ Accessed("pw")
  /\ IF existsSync(pwPath)
     THEN /\ publicWitnessBytes' = statSize(fileAt(pwPath))
          /\ instructionDataBytes' = proofBytes + publicWitnessBytes'
          /\ Goto("witnessExists")
     ELSE /\ Throw(ENOENT("stat", pwPath))
          /\ UNCHANGED <<publicWitnessBytes, instructionDataBytes>>
  /\ UNCHANGED <<env, resolved, proofBytes, optionalSizes, counts, verdict,
                 vkRentEstimateSOL>>

\* sizeIfExists(witnessPath): if (!fs.existsSync(filePath)) return undefined
WitnessExists ==
  /\ pc = "witnessExists"
  /\ Accessed("witness")
  /\ IF existsSync(witnessPath)
     THEN Goto("witnessStat") /\ UNCHANGED witnessBytes
     ELSE Goto("acirExists") /\ witnessBytes' = Undefined
  /\ UNCHANGED <<env, resolved, sizes, acirBytes, counts, verdict,
                 vkRentEstimateSOL>>

\* sizeIfExists(witnessPath): return fs.statSync(filePath).size
WitnessStat ==
  /\ pc = "witnessStat"
  /\ Accessed("witness")
  /\ IF existsSync(witnessPath)
     THEN /\ witnessBytes' = Some(statSize(fileAt(witnessPath)))
          /\ Goto("acirExists")
     ELSE /\ Throw(ENOENT("stat", witnessPath))
          /\ UNCHANGED witnessBytes
  /\ UNCHANGED <<env, resolved, sizes, acirBytes, counts, verdict,
                 vkRentEstimateSOL>>

\* sizeIfExists(acirPath): if (!fs.existsSync(filePath)) return undefined
AcirExists ==
  /\ pc = "acirExists"
  /\ Accessed("acir")
  /\ IF existsSync(acirPath)
     THEN Goto("acirStat") /\ UNCHANGED acirBytes
     ELSE Goto("pwExists") /\ acirBytes' = Undefined
  /\ UNCHANGED <<env, resolved, sizes, witnessBytes, counts, verdict,
                 vkRentEstimateSOL>>

\* sizeIfExists(acirPath): return fs.statSync(filePath).size
AcirStat ==
  /\ pc = "acirStat"
  /\ Accessed("acir")
  /\ IF existsSync(acirPath)
     THEN /\ acirBytes' = Some(statSize(fileAt(acirPath)))
          /\ Goto("pwExists")
     ELSE /\ Throw(ENOENT("stat", acirPath))
          /\ UNCHANGED acirBytes
  /\ UNCHANGED <<env, resolved, sizes, witnessBytes, counts, verdict,
                 vkRentEstimateSOL>>

\* estimatePublicInputs(pwPath): if (!fs.existsSync(pwPath)) return undefined
PwExists ==
  /\ pc = "pwExists"
  /\ Accessed("pw")
  /\ IF existsSync(pwPath)
     THEN Goto("pwRead") /\ UNCHANGED publicInputCount
     ELSE Goto("acirExistsAgain") /\ publicInputCount' = Undefined
  /\ UNCHANGED <<env, resolved, sizes, optionalSizes, constraintCount,
                 verdict, vkRentEstimateSOL>>

\* estimatePublicInputs(pwPath): bytes = fs.readFileSync(pwPath).length;
\* return Math.floor(bytes / FIELD_ELEMENT_BYTES)
PwRead ==
  /\ pc = "pwRead"
  /\ Accessed("pw")
  /\ IF existsSync(pwPath)
     THEN /\ publicInputCount' = publicInputsOfBytes(fileAt(pwPath).size)
          /\ Goto("acirExistsAgain")
     ELSE /\ Throw(ENOENT("open", pwPath))
          /\ UNCHANGED publicInputCount
  /\ UNCHANGED <<env, resolved, sizes, optionalSizes, constraintCount,
                 verdict, vkRentEstimateSOL>>

\* extractConstraintCount(acirPath): if (!fs.existsSync(acirPath)) return undefined
AcirExistsAgain ==
  /\ pc = "acirExistsAgain"
  /\ Accessed("acir")
  /\ IF existsSync(acirPath)
     THEN Goto("acirRead") /\ UNCHANGED constraintCount
     ELSE Goto("classify") /\ constraintCount' = Undefined
  /\ UNCHANGED <<env, resolved, sizes, optionalSizes, publicInputCount,
                 verdict, vkRentEstimateSOL>>

\* extractConstraintCount(acirPath): the try block; readFileSync throwing
\* ENOENT is caught like a parse error
AcirRead ==
  /\ pc = "acirRead"
  /\ Accessed("acir")
  /\ constraintCount' =
       IF existsSync(acirPath) THEN constraintCountOfDoc(fileAt(acirPath).doc)
       ELSE Undefined
  /\ Goto("classify")
  /\ UNCHANGED <<env, resolved, sizes, optionalSizes, publicInputCount,
                 verdict, vkRentEstimateSOL>>

\* usesALT, effectiveInstructionLimit, the four warning checks in program
\* order and predictComputeUnits (a pure stretch of profileCircuit)
Classify ==
  /\ pc = "classify"
  /\ LET usesALT == usesALTOf(opts)
         cu == predictComputeUnits(publicInputCount, constraintCount)
         w1 == budgetWarning(<<>>, instructionDataBytes, usesALT)
         w2 == maxTxWarning(w1, instructionDataBytes)
         w3 == publicInputWarning(w2, publicInputCount)
         w4 == highCUWarning(w3, cu)
     IN /\ effectiveInstructionLimit' = effectiveLimitOf(usesALT)
        /\ totalCU' = cu
        /\ warnings' = w4
  /\ Goto("vkExists")
  /\ UNCHANGED <<env, resolved, sizes, optionalSizes, counts,
                 vkRentEstimateSOL, accesses>>

\* estimateRent(sizeIfExists(vkPath)): the existence check
VkExists ==
  /\ pc = "vkExists"
  /\ Accessed("vk")
  /\ IF existsSync(vkPath)
     THEN Goto("vkStat") /\ UNCHANGED vkRentEstimateSOL
     ELSE Goto("assemble") /\ vkRentEstimateSOL' = estimateRent(Undefined)
  /\ UNCHANGED <<env, resolved, sizes, optionalSizes, counts, verdict>>

\* estimateRent(sizeIfExists(vkPath)): the stat and the estimate
VkStat ==
  /\ pc = "vkStat"
  /\ Accessed("vk")
  /\ IF existsSync(vkPath)
     THEN /\ vkRentEstimateSOL' = estimateRent(Some(statSize(fileAt(vkPath))))
          /\ Goto("assemble")
     ELSE /\ Throw(ENOENT("stat", vkPath))
          /\ UNCHANGED vkRentEstimateSOL
  /\ UNCHANGED <<env, resolved, sizes, optionalSizes, counts, verdict>>

\* the status and the returned record
Assemble ==
  /\ pc = "assemble"
  /\ result' = << [ circuitName |-> circuitName,
                    proofBytes |-> proofBytes,
                    publicWitnessBytes |-> publicWitnessBytes,
                    instructionDataBytes |-> instructionDataBytes,
                    effectiveInstructionLimit |-> effectiveInstructionLimit,
                    publicInputCount |-> publicInputCount,
                    constraintCount |-> constraintCount,
                    totalCU |-> totalCU,
                    vkRentEstimateSOL |-> vkRentEstimateSOL,
                    witnessBytes |-> witnessBytes,
                    acirBytes |-> acirBytes,
                    fitsInSolanaTx |-> instructionDataBytes <= SOLANA_TX_MAX_BYTES,
                    status |-> statusOf(instructionDataBytes, warnings),
                    warnings |-> warnings ] >>
  /\ pc' = "done"
  /\ UNCHANGED <<env, resolved, sizes, optionalSizes, counts, verdict,
                 vkRentEstimateSOL, error, accesses>>

Next ==
  \/ CheckTargetDir
  \/ ReadTargetDir
  \/ StatProof
  \/ StatPw
  \/ WitnessExists
  \/ WitnessStat
  \/ AcirExists
  \/ AcirStat
  \/ PwExists
  \/ PwRead
  \/ AcirExistsAgain
  \/ AcirRead
  \/ Classify
  \/ VkExists
  \/ VkStat
  \/ Assemble

\* one run of profileCircuit over a file system nobody else touches
Spec == Init /\ [][Next]_vars

(* ---------------- A run beside another process ---------------- *)

\* what another process may leave at a path
ContentsFor(path) ==
  {NoFile} \cup
    (IF endsWith(path, DotProof) THEN ProofFiles
     ELSE IF endsWith(path, DotPw) THEN {Binary(s) : s \in PwSizes}
     ELSE IF endsWith(path, DotGz) THEN {Binary(s) : s \in GzSizes}
     ELSE IF endsWith(path, DotJson) THEN AcirFiles
     ELSE {Binary(s) : s \in VkSizes})

\* the paths the rest of the run can still read: every entry of the
\* directory until it has been listed, the five artifact paths afterwards
ReadablePaths ==
  IF pc \in {"start", "readdir"} THEN Paths
  ELSE {proofPath, pwPath, witnessPath, acirPath, vkPath} \cap Paths

\* another process writes, rewrites or removes one file of the target
\* directory before or between two file system calls of the run
FsChange ==
  /\ pc \notin {"done", "failed"}
  /\ fsChanges < MaxFsChanges
  /\ targetDirExists
  /\ \E path \in ReadablePaths :
       \E file \in ContentsFor(path) \ {fs[path]} :
          fs' = [fs EXCEPT ![path] = file]
  /\ fsChanges' = fsChanges + 1
  /\ UNCHANGED <<targetDirExists, opts, pc, resolved, sizes, optionalSizes,
                 counts, verdict, vkRentEstimateSOL, outcome, accesses>>

\* another process removes the target directory with everything in it
RemoveTargetDir ==
  /\ pc \notin {"done", "failed"}
  /\ fsChanges < MaxFsChanges
  /\ targetDirExists
  /\ targetDirExists' = FALSE
  /\ fs' = [p \in Paths |-> NoFile]
  /\ fsChanges' = fsChanges + 1
  /\ UNCHANGED <<opts, pc, resolved, sizes, optionalSizes, counts, verdict,
                 vkRentEstimateSOL, outcome, accesses>>

\* the complete artifact set of circuit "a"
InitConc ==
  /\ opts = Undefined
  /\ targetDirExists = TRUE
  /\ \E pw \in {Binary(s) : s \in PwSizes}, acir \in AcirFiles :
       fs = DirWith([p \in ProofPaths |->
                       IF p = StemA \o DotProof THEN Binary(300) ELSE NoFile],
                    StemA, pw, Binary(64), acir, Binary(1024))
  /\ InitRun

NextConc == Next \/ FsChange \/ RemoveTargetDir

SpecConc == InitConc /\ [][NextConc]_vars

(* ---------------- Properties ---------------- *)

\* the classes of warning the specification names
WarningClass(w) ==
  CASE w.kind \in {"exceeds safe limit", "exceeds ALT-adjusted limit"} -> "budget-exceeded"
    [] w.kind = "exceeds MAX Solana TX size" -> "hard-limit-exceeded"
    [] w.kind = "High public input count" -> "high-public-input-count"
    [] w.kind = "High CU usage" -> "high-compute"
    [] OTHER -> "other"
Classes(ws) == [i \in 1..Len(ws) |-> WarningClass(ws[i])]
If(cond, class) == IF cond THEN <<class>> ELSE <<>>

\* C1: in a returned result, status is FAIL whenever instructionDataBytes >
\* 1232, otherwise WARN when the warning list is non-empty, and PASS exactly
\* when the list is empty and instructionDataBytes <= 1232.
C1_StatusFromBytesAndWarnings ==
  pc = "done" =>
    LET r == result[1] IN
    /\ r.instructionDataBytes > 1232 => r.status = "FAIL"
    /\ r.instructionDataBytes <= 1232 /\ r.warnings # <<>> => r.status = "WARN"
    /\ r.status = "PASS" <=> (r.warnings = <<>> /\ r.instructionDataBytes <= 1232)

\* a FAIL verdict in lookup-table mode with a low compute estimate
C1_Witness ==
  /\ pc = "done"
  /\ opts = Some(TRUE)
  /\ result[1].status = "FAIL"
  /\ result[1].totalCU <= 900000

\* C2: the warning list of a returned result is exactly the four warnings
\* whose conditions hold, in the order budget-exceeded, hard-limit-exceeded,
\* high-public-input-count, high-compute.
C2_WarningsInOrder ==
  pc = "done" =>
    LET r == result[1] IN
    Classes(r.warnings) =
         If(r.instructionDataBytes > r.effectiveInstructionLimit, "budget-exceeded")
      \o If(r.instructionDataBytes > 1232, "hard-limit-exceeded")
      \o If(IsDefined(r.publicInputCount) /\ Val(r.publicInputCount) > 8,
            "high-public-input-count")
      \o If(r.totalCU > 900000, "high-compute")

\* all four warnings at once
C2_Witness ==
  /\ pc = "done"
  /\ Len(result[1].warnings) = 4

\* C3: totalCU = 150_000 + p * 12_000 + floor(c / 10_000) * 20_000 with absent
\* p and c read as 0, and totalCU is a non-negative integer.
C3_TotalCUFormula ==
  pc = "done" =>
    LET r == result[1]
        p == IF IsDefined(r.publicInputCount) THEN Val(r.publicInputCount) ELSE 0
        c == IF IsDefined(r.constraintCount) THEN Val(r.constraintCount) ELSE 0
    IN /\ r.totalCU = 150000 + p * 12000 + (c \div 10000) * 20000
       /\ r.totalCU \in Nat

\* C4: a proof file was found but the proof or public-witness file of the
\* artifact set does not exist: the run throws the "no such file" error of
\* its stat call on that file, and no result is ever produced.
C4_RequiredArtifactMissing ==
  LET proofMissing == ~fileAt(proofPath).exists
      pwMissing == ~fileAt(pwPath).exists
  IN proofFile # <<>> /\ (proofMissing \/ pwMissing) =>
       /\ result = <<>>
       /\ pc # "done"
       /\ pc \notin {"statProof", "statPw"} =>
            /\ pc = "failed"
            /\ error = ENOENT("stat", IF proofMissing THEN proofPath ELSE pwPath)

\* the run failed on the missing public-witness file
C4_Witness ==
  /\ pc = "failed"
  /\ proofFile # <<>>
  /\ fileAt(proofPath).exists
  /\ ~fileAt(pwPath).exists
  /\ error.path = pwPath

\* C5: in a returned result the rent estimate is present if and only if the
\* verification-key file exists, whatever its size.
C5_RentIffVkExists ==
  pc = "done" =>
    (IsDefined(result[1].vkRentEstimateSOL) <=> fileAt(vkPath).exists)

\* C6: the proof file selected does not depend on the order in which the
\* directory entries are listed.
C6_DeterministicProofChoice ==
  proofFile # <<>> =>
    \A files \in Listings : findProofFile(files) = Some(proofFile)

\* a circuit-definition file that does not parse or has no constraints member
MalformedAcir ==
  /\ circuitName # <<>>
  /\ fileAt(proofPath).exists
  /\ fileAt(pwPath).exists
  /\ fileAt(acirPath).exists
  /\ fileAt(acirPath).doc.kind \in {"invalid", "null", "noField"}

\* C7: with the proof and public-witness files present, a malformed
\* circuit-definition file never fails the run: constraintCount is absent,
\* totalCU has no constraint term, every warning is one of the four classes
\* and the status follows from the sizes, the lookup-table flag and the
\* public-input count alone.
C7_MalformedAcirIsNotFatal ==
  MalformedAcir =>
    /\ pc # "failed"
    /\ error = NoError
    /\ pc \in {"classify", "vkExists", "vkStat", "assemble", "done"} =>
         constraintCount = Undefined
    /\ pc = "done" =>
         LET r == result[1]
             bytes == fileAt(proofPath).size + fileAt(pwPath).size
             p == fileAt(pwPath).size \div 32
             limit == IF opts = Some(TRUE) THEN 750 ELSE 900
         IN /\ r.constraintCount = Undefined
            /\ r.totalCU = 150000 + p * 12000
            /\ \A i \in 1..Len(r.warnings) : WarningClass(r.warnings[i]) # "other"
            /\ r.status = IF bytes > 1232 THEN "FAIL"
                          ELSE IF bytes > limit \/ p > 8 \/ 150000 + p * 12000 > 900000
                               THEN "WARN"
                          ELSE "PASS"

\* a completed run over a circuit-definition file that is not JSON
C7_Witness ==
  /\ pc = "done"
  /\ MalformedAcir
  /\ fileAt(acirPath).doc.kind = "invalid"

\* C8: in a returned result each optional metric is absent or a non-negative
\* integer, and an empty public-witness file gives publicInputCount 0.
C8_OptionalMetricsNatOrAbsent ==
  pc = "done" =>
    LET r == result[1] IN
    /\ \A m \in {r.publicInputCount, r.constraintCount, r.witnessBytes, r.acirBytes} :
         ~IsDefined(m) \/ Val(m) \in Nat
    /\ r.publicWitnessBytes = 0 => r.publicInputCount = Some(0)

\* C9: a run makes at most one file system call per artifact, so the values
\* derived from one file agree with each other.
C9_SingleObservation ==
  /\ \A k \in ArtifactKinds : accesses[k] <= 1
  /\ pc = "done" =>
       LET r == result[1] IN
       /\ r.publicInputCount = Some(r.publicWitnessBytes \div 32)
       /\ IsDefined(r.constraintCount) => IsDefined(r.acirBytes)

\* C10: the circuit name is the matched file name without its trailing
\* ".proof", so the proof path is the matched file.
C10_CircuitNameIsStem ==
  proofFile # <<>> =>
    /\ circuitName \o DotProof = proofFile
    /\ proofPath = proofFile

====
